---- MODULE Spec2Model ----
(***************************************************************************)
(* solsw/contexthelper: OrContext (src/orcontext.go) and AndContext        *)
(* (src/contexthelper.go) combine two context.Context values.  The model   *)
(* follows one combined context, its two inputs, the goroutines that call  *)
(* Done() and Err() on it, and the watcher goroutine (orDone / andDone)    *)
(* that Done() spawns.  Deadline() and Value() are modelled over inputs    *)
(* with any deadlines and values (PureSpec) and next to Done() and Err()   *)
(* (FullSpec); NestSpec puts the combined context in as an input of an     *)
(* outer combined context over a third input, Ctx3.                        *)
(*                                                                         *)
(* Channels are numbered: 0 is the nil channel, 1 and 2 are the Done       *)
(* channels of Ctx1 and Ctx2, -1 is that of Ctx3, and 2+k is the k-th      *)
(* channel allocated by make(chan struct{}) in Done().  An error is "nil",  *)
(* "Canceled" or "DeadlineExceeded"; the result of errors.Join is the      *)
(* sequence of the causes it wraps, and the empty sequence is the nil      *)
(* error.                                                                  *)
(***************************************************************************)
EXTENDS Integers, Sequences, FiniteSets

\* Number of goroutines calling Done() and Err() on the combined context.
NumObservers == 2

Observers == 1..NumObservers

Nil == "nil"

NilChan == 0

VARIABLES
    policy,       \* "or": an OrContext, "and": an AndContext
    kind,         \* kind[i]: what Ctx_i is: "background", "cancel", "timeout"
    inErr,        \* inErr[i]: Ctx_i.Err()
    onceDone,     \* c.onceDone: "fresh", "running", "done"
    done,         \* c.done: a channel number, NilChan while unset
    onceErr,      \* c.onceErr
    err,          \* c.err: the joined error, <<>> for nil
    closed,       \* the allocated channels that have been closed
    allocs,       \* how many times make(chan struct{}) ran
    watchers,     \* the goroutines started by "go orDone/andDone(...)"
    closePanic,   \* a close of an already closed channel was attempted
    obs,          \* obs[o]: the position and locals of observer goroutine o
    doneReturned, \* the values Done() calls of observers have returned
    errReturned,  \* the values Err() calls have returned from the fired branch
    errReads,     \* how many times the body of c.onceErr.Do ran
    errArgs,      \* the two arguments errors.Join was last called with
    errAtFire,    \* Ctx1.Err() and Ctx2.Err() when the derived channel was closed
    inDl,         \* inDl[i], inOk[i]: what Ctx_i.Deadline() returns
    inOk,
    store,        \* store[i][key]: what Ctx_i.Value(key) returns
    onceDeadline, \* c.onceDeadline
    deadline,     \* c.deadline
    okDeadline,   \* c.okDeadline
    dlReturned,   \* the results Deadline() calls have returned
    valueRet,     \* the key and the result of the last Value() call
    oPolicy,      \* the outer combined context: "or" or "and"
    oPos,         \* which input of the outer context the modelled context is
    kind3,        \* what the outer context's other input, Ctx3, is
    err3,         \* Ctx3.Err()
    oOnceDone,    \* the outer context's onceDone
    oDone,        \* the outer context's done
    now           \* the time, an instant 0..MaxDeadline+1

\* The outer combined context of a nesting and its other input.
nestVars == <<oPolicy, oPos, kind3, err3, oOnceDone, oDone>>

\* The state behind Deadline() and Value().
pureVars == <<inDl, inOk, store, onceDeadline, deadline, okDeadline,
              dlReturned, valueRet>>

auxVars == <<pureVars, nestVars, now>>

vars == <<policy, kind, inErr, onceDone, done, onceErr, err, closed, allocs,
          watchers, closePanic, obs, doneReturned, errReturned, errReads,
          errArgs, errAtFire, auxVars>>

ctxVars == <<policy, kind>>

Kinds == {"background", "cancel", "timeout"}

\* Ctx_i.Done(): nil for context.Background(), the context's channel otherwise.
InDone(i) == IF kind[i] = "background" THEN NilChan ELSE i

\* The Done channel of Ctx3, the other input of the outer context.
Ctx3Chan == -1

\* Whether a receive from channel ch can proceed: nobody ever sends on these
\* channels, so only a closed channel is ready, and the nil channel never is.
ChanClosed(ch) ==
    CASE ch = NilChan -> FALSE
      [] ch \in {1, 2} -> inErr[ch] # Nil
      [] ch = Ctx3Chan -> err3 # Nil
      [] OTHER -> ch \in closed

Idle == [pc |-> "idle", op |-> "none", ch |-> NilChan, e1 |-> Nil, ret |-> <<>>]

\* Largest deadline an input is given; deadlines are instants 1..MaxDeadline.
MaxDeadline == 2

\* The keys and the values the inputs are built with by context.WithValue.
Keys == {"key", "qwerty"}

Values == {"i1234", "s1234"}

\* The fields of a combined context returned by NewOrContext / NewAndContext
\* and the bookkeeping of a run that has not started.
InitCtx ==
    /\ inErr = [i \in {1, 2} |-> Nil]
    /\ onceDone = "fresh"
    /\ done = NilChan
    /\ onceErr = "fresh"
    /\ err = <<>>
    /\ closed = {}
    /\ allocs = 0
    /\ watchers = <<>>
    /\ closePanic = FALSE
    /\ obs = [o \in Observers |-> Idle]
    /\ doneReturned = {}
    /\ errReturned = {}
    /\ errReads = 0
    /\ errArgs = <<Nil, Nil>>
    /\ errAtFire = <<Nil, Nil>>
    /\ onceDeadline = "fresh"
    /\ deadline = 0
    /\ okDeadline = FALSE
    /\ dlReturned = {}
    /\ valueRet = [key |-> "none", ok |-> FALSE, v1 |-> Nil, v2 |-> Nil]
    /\ err3 = Nil
    /\ oOnceDone = "fresh"
    /\ oDone = NilChan
    /\ now = 0

\* The combined context is not nested: the outer context's fields stay unused.
NoOuter == oPolicy = "or" /\ oPos = 1 /\ kind3 = "background"

\* Any two inputs by kind; a context made by context.WithTimeout has a
\* deadline, and neither input carries a value.
Init ==
    /\ policy \in {"or", "and"}
    /\ kind \in [{1, 2} -> Kinds]
    /\ inOk = [i \in {1, 2} |-> kind[i] = "timeout"]
    /\ inDl = [i \in {1, 2} |-> IF kind[i] = "timeout" THEN i ELSE 0]
    /\ store = [i \in {1, 2} |-> [k \in Keys |-> Nil]]
    /\ NoOuter
    /\ InitCtx

----------------------------------------------------------------------------
(* The inputs: cancellation and timeout of Ctx1 and Ctx2.                  *)

\* cancel() of a context made by context.WithCancel or context.WithTimeout.
Cancel(i) ==
    /\ kind[i] \in {"cancel", "timeout"}
    /\ inErr[i] = Nil
    /\ inErr' = [inErr EXCEPT ![i] = "Canceled"]
    /\ UNCHANGED <<ctxVars, onceDone, done, onceErr, err, closed, allocs,
                   watchers, closePanic, obs, doneReturned, errReturned, errReads, errArgs,
                   errAtFire, auxVars>>

\* The timer of a context made by context.WithTimeout fires.
Timeout(i) ==
    /\ kind[i] = "timeout"
    /\ inErr[i] = Nil
    /\ inErr' = [inErr EXCEPT ![i] = "DeadlineExceeded"]
    /\ UNCHANGED <<ctxVars, onceDone, done, onceErr, err, closed, allocs,
                   watchers, closePanic, obs, doneReturned, errReturned, errReads, errArgs,
                   errAtFire, auxVars>>

----------------------------------------------------------------------------
(* sync.Once                                                               *)

\* Variant: no guard at all: every call runs f.
OnceRuns_Always(once) == TRUE

\* once.Do(f) runs f: no call of Do has started f yet.
OnceRuns(once) == once = "fresh"

\* once.Do(f) returns without running f: an earlier f has returned.
OncePassed(once) == once = "done"

----------------------------------------------------------------------------
(* Done()                                                                  *)

\* An observer goroutine calls c.Done().
CallDone(o) ==
    /\ obs[o].pc = "idle"
    /\ obs' = [obs EXCEPT ![o].pc = "doneOnce", ![o].op = "Done"]
    /\ UNCHANGED <<ctxVars, inErr, onceDone, done, onceErr, err, closed, allocs,
                   watchers, closePanic, doneReturned, errReturned, errReads, errArgs,
                   errAtFire, auxVars>>

\* Variant: "case <-c.done:": Err() reads the field and does not call Done().
ErrCallsDone_FieldRead(o) ==
    [obs EXCEPT ![o].pc = "errSelect", ![o].op = "Err", ![o].ch = done]

\* "case <-c.Done():": Err() starts by calling c.Done().
ErrCallsDone(o) == [obs EXCEPT ![o].pc = "doneOnce", ![o].op = "Err"]

\* An observer goroutine calls c.Err().
CallErr(o) ==
    /\ obs[o].pc = "idle"
    /\ obs' = ErrCallsDone(o)
    /\ UNCHANGED <<ctxVars, inErr, onceDone, done, onceErr, err, closed, allocs,
                   watchers, closePanic, doneReturned, errReturned, errReads, errArgs,
                   errAtFire, auxVars>>

\* "return c.done" with c.done = d: back in the caller of Done(), which keeps
\* the channel, or in Err(), at its select.  c.done is written only by the
\* body of c.onceDone.Do, so the read is taken in the step that leaves Do.
DoneReturn(o, d) ==
    IF obs[o].op = "Done"
    THEN /\ obs' = [obs EXCEPT ![o] = Idle]
         /\ doneReturned' = doneReturned \cup {d}
    ELSE /\ obs' = [obs EXCEPT ![o].pc = IF obs[o].op = "Err" THEN "errSelect"
                                                          ELSE "outerBody",
                                ![o].ch = d]
         /\ UNCHANGED doneReturned

\* c.onceDone.Do(...) entered: the first caller starts the body, a caller
\* that finds the body running waits, a caller that finds it finished
\* returns c.done.
DoneOnceEnter(o) ==
    /\ obs[o].pc = "doneOnce"
    /\ \/ /\ OnceRuns(onceDone)
          /\ onceDone' = "running"
          /\ obs' = [obs EXCEPT ![o].pc = "doneBody"]
          /\ UNCHANGED doneReturned
       \/ /\ OncePassed(onceDone)
          /\ onceDone' = onceDone
          /\ DoneReturn(o, done)
    /\ UNCHANGED <<ctxVars, inErr, done, onceErr, err, closed, allocs,
                   watchers, closePanic, errReturned, errReads, errArgs,
                   errAtFire, auxVars>>

\* Variant: the nil check is missing.
BothDoneNil_Never == FALSE

\* "if c.Ctx1.Done() == nil && c.Ctx2.Done() == nil { return }"
BothDoneNil == InDone(1) = NilChan /\ InDone(2) = NilChan

\* Variant: OrContext.Done copied from AndContext.Done with "go andDone" kept.
WatcherFunc_AndDoneEverywhere == "andDone"

\* Variant: AndContext.Done copied from OrContext.Done with "go orDone" kept.
WatcherFunc_OrDoneEverywhere == "orDone"

\* The function the go statement of Done() starts: OrContext.Done starts
\* orDone, AndContext.Done starts andDone.
WatcherFunc == IF policy = "or" THEN "orDone" ELSE "andDone"

\* The goroutine started by "go orDone(c.Ctx1.Done(), c.Ctx2.Done(), c.done)"
\* or "go andDone(...)": its function, its position and its parameters.
NewWatcher(out) == [fn |-> WatcherFunc, pc |-> "select", done1 |-> InDone(1),
                    done2 |-> InDone(2), out |-> out]

\* The body handed to c.onceDone.Do, and the return from Done().
DoneBody(o) ==
    /\ obs[o].pc = "doneBody"
    /\ IF BothDoneNil
       THEN UNCHANGED <<done, allocs, watchers>>
       ELSE /\ allocs' = allocs + 1
            /\ done' = 2 + allocs'
            /\ watchers' = Append(watchers, NewWatcher(2 + allocs'))
    /\ onceDone' = "done"
    /\ DoneReturn(o, done')
    /\ UNCHANGED <<ctxVars, inErr, onceErr, err, closed, closePanic,
                   errReturned, errReads, errArgs,
                   errAtFire, auxVars>>

----------------------------------------------------------------------------
(* Err()                                                                   *)

\* Variant: the arguments are joined in the opposite order.
Join_Reversed(e1, e2) == SelectSeq(<<e2, e1>>, LAMBDA e : e # Nil)

\* Variant: "if e1 != nil { return e1 }; return e2": the first cause alone.
Join_FirstOnly(e1, e2) == IF e1 # Nil THEN <<e1>> ELSE SelectSeq(<<e2>>, LAMBDA e : e # Nil)

\* errors.Join(e1, e2): the non-nil errors in argument order, nil if none.
Join(e1, e2) == SelectSeq(<<e1, e2>>, LAMBDA e : e # Nil)

\* Variant: Err() without the select, joining the inputs' errors at once.
ErrSelectsDone_Always(ch) == TRUE

\* "case <-c.Done():" of Err()'s select is taken.
ErrSelectsDone(ch) == ChanClosed(ch)

\* select { case <-c.Done(): ... default: return nil }
ErrSelect(o) ==
    /\ obs[o].pc = "errSelect"
    /\ IF ErrSelectsDone(obs[o].ch)
       THEN obs' = [obs EXCEPT ![o].pc = "errOnce", ![o].ch = NilChan]
       ELSE obs' = [obs EXCEPT ![o].pc = "errRetNil", ![o].ch = NilChan]
    /\ UNCHANGED <<ctxVars, inErr, onceDone, done, onceErr, err, closed, allocs,
                   watchers, closePanic, doneReturned, errReturned, errReads, errArgs,
                   errAtFire, auxVars>>

\* Variant: "return errors.Join(c.Ctx1.Err(), c.Ctx2.Err())": the value is
\* joined anew at every return instead of being taken from c.err.
ErrResult_Fresh == Join(inErr[1], inErr[2])

\* "return c.err": the value Err() returns from the fired branch.
ErrResult == err

\* c.onceErr.Do(...), then "return c.err" for a caller that did not run the body.
ErrOnceEnter(o) ==
    /\ obs[o].pc = "errOnce"
    /\ \/ /\ OnceRuns(onceErr)
          /\ onceErr' = "running"
          /\ obs' = [obs EXCEPT ![o].pc = "errRead1"]
       \/ /\ OncePassed(onceErr)
          /\ onceErr' = onceErr
          /\ obs' = [obs EXCEPT ![o].pc = "errRet", ![o].ret = ErrResult]
    /\ UNCHANGED <<ctxVars, inErr, onceDone, done, err, closed, allocs,
                   watchers, closePanic, doneReturned, errReturned, errReads, errArgs,
                   errAtFire, auxVars>>

\* The first argument of errors.Join is evaluated: c.Ctx1.Err().
ErrRead1(o) ==
    /\ obs[o].pc = "errRead1"
    /\ obs' = [obs EXCEPT ![o].pc = "errRead2", ![o].e1 = inErr[1]]
    /\ UNCHANGED <<ctxVars, inErr, onceDone, done, onceErr, err, closed, allocs,
                   watchers, closePanic, doneReturned, errReturned, errReads, errArgs,
                   errAtFire, auxVars>>

\* c.Ctx2.Err() is evaluated, c.err = errors.Join(...), the once is finished
\* and "return c.err" follows.
ErrRead2(o) ==
    /\ obs[o].pc = "errRead2"
    /\ err' = Join(obs[o].e1, inErr[2])
    /\ onceErr' = "done"
    /\ errReads' = errReads + 1
    /\ errArgs' = <<obs[o].e1, inErr[2]>>
    /\ UNCHANGED <<ctxVars, inErr, onceDone, done, closed, allocs,
                   watchers, closePanic, doneReturned, errReturned,
                   errAtFire, auxVars>>
    /\ obs' = [obs EXCEPT ![o].pc = "errRet", ![o].ret = ErrResult']

\* "return c.err": Err() hands obs[o].ret to its caller.
ErrReturn(o) ==
    /\ obs[o].pc = "errRet"
    /\ errReturned' = errReturned \cup {obs[o].ret}
    /\ obs' = [obs EXCEPT ![o] = Idle]
    /\ UNCHANGED <<ctxVars, inErr, onceDone, done, onceErr, err, closed, allocs,
                   watchers, closePanic, doneReturned, errReads, errArgs,
                   errAtFire, auxVars>>

\* "default: return nil": Err() hands nil to its caller.
ErrReturnNil(o) ==
    /\ obs[o].pc = "errRetNil"
    /\ obs' = [obs EXCEPT ![o] = Idle]
    /\ UNCHANGED <<ctxVars, inErr, onceDone, done, onceErr, err, closed, allocs,
                   watchers, closePanic, doneReturned, errReturned, errReads, errArgs,
                   errAtFire, auxVars>>

----------------------------------------------------------------------------
(* The watchers                                                            *)

\* Variant: the select falls through without waiting for either channel.
OrSelectReady_NoWait(w) == TRUE

\* Variant: only "case <-done1:" is waited for.
OrSelectReady_FirstOnly(w) == ChanClosed(w.done1)

\* orDone: select { case <-done1: case <-done2: }
OrSelectReady(w) == ChanClosed(w.done1) \/ ChanClosed(w.done2)

orDoneSelect(n) ==
    /\ watchers[n].fn = "orDone"
    /\ watchers[n].pc = "select"
    /\ OrSelectReady(watchers[n])
    /\ watchers' = [watchers EXCEPT ![n].pc = "close"]
    /\ UNCHANGED <<ctxVars, inErr, onceDone, done, onceErr, err, closed, allocs,
                   closePanic, obs, doneReturned, errReturned, errReads, errArgs,
                   errAtFire, auxVars>>

\* Variant: "for done1 != nil && done2 != nil".
AndLoops_Conjunction(w) == w.done1 # NilChan /\ w.done2 # NilChan

\* Variant: the loop runs until both inputs' own channels are closed, with no
\* regard for a nil channel.
AndLoops_UntilBothClosed(w) == ~(ChanClosed(1) /\ ChanClosed(2))

\* andDone: "for done1 != nil || done2 != nil"
AndLoops(w) == w.done1 # NilChan \/ w.done2 # NilChan

\* andDone: "case _, ok1 := <-done1: if !ok1 { done1 = nil }"
andDoneRecv1(n) ==
    /\ watchers[n].fn = "andDone"
    /\ watchers[n].pc = "select"
    /\ AndLoops(watchers[n])
    /\ ChanClosed(watchers[n].done1)
    /\ watchers' = [watchers EXCEPT ![n].done1 = NilChan]
    /\ UNCHANGED <<ctxVars, inErr, onceDone, done, onceErr, err, closed, allocs,
                   closePanic, obs, doneReturned, errReturned, errReads, errArgs,
                   errAtFire, auxVars>>

\* andDone: "case _, ok2 := <-done2: if !ok2 { done2 = nil }"
andDoneRecv2(n) ==
    /\ watchers[n].fn = "andDone"
    /\ watchers[n].pc = "select"
    /\ AndLoops(watchers[n])
    /\ ChanClosed(watchers[n].done2)
    /\ watchers' = [watchers EXCEPT ![n].done2 = NilChan]
    /\ UNCHANGED <<ctxVars, inErr, onceDone, done, onceErr, err, closed, allocs,
                   closePanic, obs, doneReturned, errReturned, errReads, errArgs,
                   errAtFire, auxVars>>

\* andDone: the loop condition is false, the loop is left.
andDoneExit(n) ==
    /\ watchers[n].fn = "andDone"
    /\ watchers[n].pc = "select"
    /\ ~AndLoops(watchers[n])
    /\ watchers' = [watchers EXCEPT ![n].pc = "close"]
    /\ UNCHANGED <<ctxVars, inErr, onceDone, done, onceErr, err, closed, allocs,
                   closePanic, obs, doneReturned, errReturned, errReads, errArgs,
                   errAtFire, auxVars>>

\* Variant: close(done) sits inside a loop around the select.
AfterClose_Again == "select"

\* Where a watcher is after close(done): at the end of its function.
AfterClose == "exit"

\* close(done), the last statement of orDone and of andDone; closing a closed
\* channel panics.
watcherClose(n) ==
    /\ watchers[n].pc = "close"
    /\ IF watchers[n].out \in closed
       THEN closePanic' = TRUE /\ UNCHANGED closed
       ELSE closed' = closed \cup {watchers[n].out} /\ UNCHANGED closePanic
    /\ errAtFire' = IF watchers[n].out = done THEN <<inErr[1], inErr[2]>>
                                              ELSE errAtFire
    /\ watchers' = [watchers EXCEPT ![n].pc = AfterClose]
    /\ UNCHANGED <<ctxVars, inErr, onceDone, done, onceErr, err, allocs,
                   obs, doneReturned, errReturned, errReads, errArgs, auxVars>>

----------------------------------------------------------------------------
(* Deadline() and Value()                                                  *)

\* Variant: OrContext.Deadline with AndContext's comparison, dl1.After(dl2).
OrDeadline_After(dl1, ok1, dl2, ok2) ==
    IF ~ok1 THEN <<dl2, ok2>>
    ELSE IF ~ok2 THEN <<dl1, ok1>>
    ELSE IF dl1 > dl2 THEN <<dl1, TRUE>>
    ELSE <<dl2, TRUE>>

\* The body OrContext.Deadline hands to cc.onceDeadline.Do: the pair assigned
\* to cc.deadline, cc.okDeadline.
OrDeadline(dl1, ok1, dl2, ok2) ==
    IF ~ok1 THEN <<dl2, ok2>>
    ELSE IF ~ok2 THEN <<dl1, ok1>>
    ELSE IF dl1 < dl2 THEN <<dl1, TRUE>>
    ELSE <<dl2, TRUE>>

\* Variant: AndContext.Deadline with OrContext's comparison, dl1.Before(dl2).
AndDeadline_Before(dl1, ok1, dl2, ok2) ==
    IF ~ok1 THEN <<dl2, ok2>>
    ELSE IF ~ok2 THEN <<dl1, ok1>>
    ELSE IF dl1 < dl2 THEN <<dl1, TRUE>>
    ELSE <<dl2, TRUE>>

\* The body AndContext.Deadline hands to c.onceDeadline.Do.
AndDeadline(dl1, ok1, dl2, ok2) ==
    IF ~ok1 THEN <<dl2, ok2>>
    ELSE IF ~ok2 THEN <<dl1, ok1>>
    ELSE IF dl1 > dl2 THEN <<dl1, TRUE>>
    ELSE <<dl2, TRUE>>

\* A call of Deadline(): c.onceDeadline.Do runs its body on the first call
\* only (a concurrent caller waits inside Do until the body has returned),
\* then "return c.deadline, c.okDeadline".
DeadlineCall ==
    /\ IF OnceRuns(onceDeadline)
       THEN LET d == IF policy = "or"
                     THEN OrDeadline(inDl[1], inOk[1], inDl[2], inOk[2])
                     ELSE AndDeadline(inDl[1], inOk[1], inDl[2], inOk[2])
            IN /\ deadline' = d[1]
               /\ okDeadline' = d[2]
               /\ onceDeadline' = "done"
       ELSE UNCHANGED <<deadline, okDeadline, onceDeadline>>
    /\ dlReturned' = dlReturned \cup {<<deadline', okDeadline'>>}
    /\ UNCHANGED <<ctxVars, inErr, onceDone, done, onceErr, err, closed, allocs,
                   watchers, closePanic, obs, doneReturned, errReturned,
                   errReads, errArgs, errAtFire, inDl, inOk, store, valueRet,
                   nestVars, now>>

\* The nil result of Value().
NoValue == [ok |-> FALSE, v1 |-> Nil, v2 |-> Nil]

\* OrContext.Value: "return nil".
OrValue(v1, v2) == NoValue

\* Variant: "if v1 == nil && v2 == nil".
AndValue_BothNil(v1, v2) ==
    IF v1 = Nil /\ v2 = Nil THEN NoValue ELSE [ok |-> TRUE, v1 |-> v1, v2 |-> v2]

\* AndContext.Value: nil if v1 == nil || v2 == nil, TwoValues{v1, v2} otherwise.
AndValue(v1, v2) ==
    IF v1 = Nil \/ v2 = Nil THEN NoValue ELSE [ok |-> TRUE, v1 |-> v1, v2 |-> v2]

\* A call of Value(key).
ValueCall(key) ==
    /\ LET v1 == store[1][key]
           v2 == store[2][key]
           r == IF policy = "or" THEN OrValue(v1, v2) ELSE AndValue(v1, v2)
       IN valueRet' = [key |-> key, ok |-> r.ok, v1 |-> r.v1, v2 |-> r.v2]
    /\ UNCHANGED <<ctxVars, inErr, onceDone, done, onceErr, err, closed, allocs,
                   watchers, closePanic, obs, doneReturned, errReturned,
                   errReads, errArgs, errAtFire, inDl, inOk, store,
                   onceDeadline, deadline, okDeadline, dlReturned, nestVars,
                   now>>

WatcherStep(n) ==
    \/ orDoneSelect(n)
    \/ andDoneRecv1(n)
    \/ andDoneRecv2(n)
    \/ andDoneExit(n)
    \/ watcherClose(n)

\* The steps of a call in progress of observer o.
ObserverStep(o) ==
    \/ DoneOnceEnter(o)
    \/ DoneBody(o)
    \/ ErrSelect(o)
    \/ ErrOnceEnter(o)
    \/ ErrRead1(o)
    \/ ErrRead2(o)
    \/ ErrReturn(o)
    \/ ErrReturnNil(o)

Next ==
    \/ \E i \in {1, 2} : Cancel(i)
    \/ \E i \in {1, 2} : Timeout(i)
    \/ \E o \in Observers : CallDone(o)
    \/ \E o \in Observers : CallErr(o)
    \/ \E o \in Observers : DoneOnceEnter(o)
    \/ \E o \in Observers : DoneBody(o)
    \/ \E o \in Observers : ErrSelect(o)
    \/ \E o \in Observers : ErrOnceEnter(o)
    \/ \E o \in Observers : ErrRead1(o)
    \/ \E o \in Observers : ErrRead2(o)
    \/ \E o \in Observers : ErrReturn(o)
    \/ \E o \in Observers : ErrReturnNil(o)
    \/ \E n \in DOMAIN watchers : orDoneSelect(n)
    \/ \E n \in DOMAIN watchers : andDoneRecv1(n)
    \/ \E n \in DOMAIN watchers : andDoneRecv2(n)
    \/ \E n \in DOMAIN watchers : andDoneExit(n)
    \/ \E n \in DOMAIN watchers : watcherClose(n)

Spec == Init /\ [][Next]_vars

\* Go schedules every runnable goroutine: a watcher that can step does, and
\* so does an observer inside a call.  Nothing forces a call to be made or an
\* input to be cancelled.
FairSpec ==
    /\ Spec
    /\ \A o \in Observers : WF_vars(ObserverStep(o))
    /\ WF_vars(\E n \in DOMAIN watchers : WatcherStep(n))

\* The inputs of Deadline() and Value() alone: any two inputs with or without
\* a deadline, each carrying any values under the keys.
InitPure ==
    /\ policy \in {"or", "and"}
    /\ inOk \in [{1, 2} -> BOOLEAN]
    /\ inDl \in [{1, 2} -> 0..MaxDeadline]
    /\ \A i \in {1, 2} : inOk[i] <=> inDl[i] # 0
    /\ kind = [i \in {1, 2} |-> IF inOk[i] THEN "timeout" ELSE "background"]
    /\ store \in [{1, 2} -> [Keys -> Values \cup {Nil}]]
    /\ NoOuter
    /\ InitCtx

NextPure ==
    \/ DeadlineCall
    \/ \E key \in Keys : ValueCall(key)

\* Deadline() and Value() called on a combined context over every pair of inputs.
PureSpec == InitPure /\ [][NextPure]_vars

NextFull ==
    \/ Next
    \/ DeadlineCall
    \/ \E key \in Keys : ValueCall(key)

\* All four methods called on the combined context.
FullSpec == Init /\ [][NextFull]_vars

----------------------------------------------------------------------------
(* Nesting: the combined context as an input of an outer combined context  *)
(* NewOrContext / NewAndContext(c, Ctx3) or (Ctx3, c).                     *)

\* Ctx3.Done(): nil for context.Background(), Ctx3's channel otherwise.
Done3 == IF kind3 = "background" THEN NilChan ELSE Ctx3Chan

\* cancel() of Ctx3.
Cancel3 ==
    /\ kind3 = "cancel"
    /\ err3 = Nil
    /\ err3' = "Canceled"
    /\ UNCHANGED <<ctxVars, inErr, onceDone, done, onceErr, err, closed, allocs,
                   watchers, closePanic, obs, doneReturned, errReturned,
                   errReads, errArgs, errAtFire, pureVars,
                   oPolicy, oPos, kind3, oOnceDone, oDone, now>>

\* An observer goroutine calls Done() of the outer context and enters the
\* outer c.onceDone.Do(...): the first caller starts the body, which begins
\* with c.Ctx1.Done() and c.Ctx2.Done(), one of them Done() of the nested
\* context; a caller that finds the body running waits; a caller that finds
\* it finished returns c.done.
CallOuterDone(o) ==
    /\ obs[o].pc = "idle"
    /\ \/ /\ OnceRuns(oOnceDone)
          /\ oOnceDone' = "running"
          /\ obs' = [obs EXCEPT ![o].pc = "doneOnce", ![o].op = "OuterDone"]
       \/ /\ OncePassed(oOnceDone)
          /\ oOnceDone' = oOnceDone
          /\ obs' = obs
    /\ UNCHANGED <<ctxVars, inErr, onceDone, done, onceErr, err, closed, allocs,
                   watchers, closePanic, doneReturned, errReturned, errReads, errArgs,
                   errAtFire, pureVars, oPolicy, oPos, kind3, err3, oDone, now>>

\* Variant: "if c.Ctx1.Done() == nil || c.Ctx2.Done() == nil { return }".
OuterBothDoneNil_Either(d) == d = NilChan \/ Done3 = NilChan

\* The outer "if c.Ctx1.Done() == nil && c.Ctx2.Done() == nil { return }",
\* d being what Done() of the nested context returned.
OuterBothDoneNil(d) == d = NilChan /\ Done3 = NilChan

\* The goroutine started by the outer "go orDone(c.Ctx1.Done(), c.Ctx2.Done(),
\* c.done)" or "go andDone(...)"; Done() of the nested context returns c.done.
NewOuterWatcher(out) ==
    [fn |-> IF oPolicy = "or" THEN "orDone" ELSE "andDone",
     pc |-> "select",
     done1 |-> IF oPos = 1 THEN done ELSE Done3,
     done2 |-> IF oPos = 2 THEN done ELSE Done3,
     out |-> out]

\* The rest of the body of the outer c.onceDone.Do, and the return from Done().
OuterBody(o) ==
    /\ obs[o].pc = "outerBody"
    /\ IF OuterBothDoneNil(obs[o].ch)
       THEN UNCHANGED <<oDone, allocs, watchers>>
       ELSE /\ allocs' = allocs + 1
            /\ oDone' = 2 + allocs'
            /\ watchers' = Append(watchers, NewOuterWatcher(2 + allocs'))
    /\ oOnceDone' = "done"
    /\ obs' = [obs EXCEPT ![o] = Idle]
    /\ UNCHANGED <<ctxVars, inErr, onceDone, done, onceErr, err, closed,
                   closePanic, doneReturned, errReturned, errReads, errArgs,
                   errAtFire, pureVars, oPolicy, oPos, kind3, err3, now>>

\* The steps of a call in progress of observer o on either context.
NestObserverStep(o) ==
    \/ ObserverStep(o)
    \/ OuterBody(o)

\* A combined context over any two inputs, each context.Background() or
\* cancellable, nested at either position of an outer combined context of
\* either policy whose other input is of either kind too.
InitNest ==
    /\ policy \in {"or", "and"}
    /\ kind \in [{1, 2} -> {"background", "cancel"}]
    /\ inOk = [i \in {1, 2} |-> FALSE]
    /\ inDl = [i \in {1, 2} |-> 0]
    /\ store = [i \in {1, 2} |-> [k \in Keys |-> Nil]]
    /\ oPolicy \in {"or", "and"}
    /\ oPos \in {1, 2}
    /\ kind3 \in {"background", "cancel"}
    /\ InitCtx

NextNest ==
    \/ \E i \in {1, 2} : Cancel(i)
    \/ Cancel3
    \/ \E o \in Observers : CallDone(o)
    \/ \E o \in Observers : CallOuterDone(o)
    \/ \E o \in Observers : DoneOnceEnter(o)
    \/ \E o \in Observers : DoneBody(o)
    \/ \E o \in Observers : OuterBody(o)
    \/ \E n \in DOMAIN watchers : orDoneSelect(n)
    \/ \E n \in DOMAIN watchers : andDoneRecv1(n)
    \/ \E n \in DOMAIN watchers : andDoneRecv2(n)
    \/ \E n \in DOMAIN watchers : andDoneExit(n)
    \/ \E n \in DOMAIN watchers : watcherClose(n)

NestSpec == InitNest /\ [][NextNest]_vars

\* Go schedules every runnable goroutine: each of the two watchers and each
\* observer inside a call.
FairNestSpec ==
    /\ NestSpec
    /\ \A o \in Observers : WF_vars(NestObserverStep(o))
    /\ \A n \in {1, 2} : WF_vars(n \in DOMAIN watchers /\ WatcherStep(n))

----------------------------------------------------------------------------
(* Time: the inputs' timers against a clock                                *)

\* The timer of Ctx_i fires when its deadline has been reached.
TimerFires(i) ==
    /\ now >= inDl[i]
    /\ Timeout(i)

\* Time passes by one instant, up to one past the largest deadline; it does
\* not pass the deadline of an input whose timer has yet to fire.
Tick ==
    /\ now <= MaxDeadline
    /\ \A i \in {1, 2} : kind[i] = "timeout" /\ inErr[i] = Nil => now < inDl[i]
    /\ now' = now + 1
    /\ UNCHANGED <<ctxVars, inErr, onceDone, done, onceErr, err, closed, allocs,
                   watchers, closePanic, obs, doneReturned, errReturned,
                   errReads, errArgs, errAtFire, pureVars, nestVars>>

\* Any two inputs by kind, a context made by context.WithTimeout with any
\* deadline.
InitTimed ==
    /\ policy \in {"or", "and"}
    /\ kind \in [{1, 2} -> Kinds]
    /\ inOk = [i \in {1, 2} |-> kind[i] = "timeout"]
    /\ inDl \in [{1, 2} -> 0..MaxDeadline]
    /\ \A i \in {1, 2} : inOk[i] <=> inDl[i] # 0
    /\ store = [i \in {1, 2} |-> [k \in Keys |-> Nil]]
    /\ NoOuter
    /\ InitCtx

NextTimed ==
    \/ Tick
    \/ \E i \in {1, 2} : TimerFires(i)
    \/ \E i \in {1, 2} : Cancel(i)
    \/ DeadlineCall
    \/ \E o \in Observers : CallDone(o)
    \/ \E o \in Observers : DoneOnceEnter(o)
    \/ \E o \in Observers : DoneBody(o)
    \/ \E n \in DOMAIN watchers : orDoneSelect(n)
    \/ \E n \in DOMAIN watchers : andDoneRecv1(n)
    \/ \E n \in DOMAIN watchers : andDoneRecv2(n)
    \/ \E n \in DOMAIN watchers : andDoneExit(n)
    \/ \E n \in DOMAIN watchers : watcherClose(n)

TimedSpec == InitTimed /\ [][NextTimed]_vars

\* Time passes, a timer whose deadline has been reached fires, and Go
\* schedules every runnable goroutine.  Nothing forces a cancel() or a call.
FairTimedSpec ==
    /\ TimedSpec
    /\ WF_vars(Tick)
    /\ \A i \in {1, 2} : WF_vars(TimerFires(i))
    /\ \A o \in Observers : WF_vars(ObserverStep(o))
    /\ WF_vars(\E n \in DOMAIN watchers : WatcherStep(n))

----------------------------------------------------------------------------
(* Properties                                                              *)

\* Ctx_i's done-signal has fired: its Done channel exists and is closed.
InFired(i) == ChanClosed(InDone(i))

\* Ctx_i's done-signal is absent: Ctx_i.Done() is nil.
InAbsent(i) == InDone(i) = NilChan

\* The derived done-signal, the channel Done() returns, has fired.
DerivedFired == ChanClosed(done)

\* Done() has been called: a call is inside c.onceDone.Do or has left it.
DoneCalled == onceDone # "fresh" \/ \E o \in Observers : obs[o].pc = "doneOnce"

\* C1: OR policy: whenever the derived done-signal of an OrContext has fired,
\* or its watcher has got past its select, at least one of Ctx1's and Ctx2's
\* done-signals has fired; it never fires while both inputs are pending.
C1_OrFiresOnlyAfterAnInput ==
    policy = "or" =>
        /\ DerivedFired => InFired(1) \/ InFired(2)
        /\ \A n \in DOMAIN watchers :
               watchers[n].pc # "select" => InFired(1) \/ InFired(2)

\* An OrContext whose derived signal has fired after Ctx1 alone ended.
C1_Witness ==
    /\ policy = "or"
    /\ DerivedFired
    /\ InFired(1)
    /\ ~InAbsent(2) /\ ~InFired(2)

\* C2: OR policy: once Done() has been called and one of the inputs has fired
\* (before or after the call, the other input absent, pending or fired), the
\* derived done-signal eventually fires, the goroutines being scheduled fairly.
C2_OrEventuallyFires ==
    (policy = "or" /\ DoneCalled /\ (InFired(1) \/ InFired(2))) ~> DerivedFired

\* An OrContext with an absent Ctx1 whose derived signal fired after Ctx2 did.
C2_Witness ==
    /\ policy = "or"
    /\ InAbsent(1)
    /\ InFired(2)
    /\ DerivedFired

\* C3 as stated: AND policy: if the derived done-signal has fired then both
\* Ctx1's and Ctx2's done-signals have fired.
C3_AndFiredImpliesBothFired ==
    policy = "and" /\ DerivedFired => InFired(1) /\ InFired(2)

\* C3 as amended: AND policy: if the derived done-signal has fired then every
\* input that has a done-signal (a non-nil Done channel) has fired.
C3_AndFiredImpliesPresentFired ==
    policy = "and" /\ DerivedFired =>
        \A i \in {1, 2} : ~InAbsent(i) => InFired(i)

\* An AndContext over two cancellable inputs whose derived signal has fired.
C3_Witness ==
    /\ policy = "and"
    /\ ~InAbsent(1) /\ ~InAbsent(2)
    /\ DerivedFired

\* Every input that has a done-signal has fired.
PresentFired == \A i \in {1, 2} : ~InAbsent(i) => InFired(i)

\* Exactly one input has an absent done-signal.
OneAbsent == InAbsent(1) # InAbsent(2)

\* C4: AND policy, exactly one input with an absent done-signal: the derived
\* done-signal does not fire before the other input fires, the watcher's
\* channel for the absent side is nil throughout, and once Done() has been
\* called and the other input has fired the derived signal eventually fires.
C4_AndOneAbsent ==
    /\ [](policy = "and" /\ OneAbsent =>
            /\ DerivedFired => PresentFired
            /\ \A n \in DOMAIN watchers :
                   /\ watchers[n].pc # "select" => PresentFired
                   /\ InAbsent(1) => watchers[n].done1 = NilChan
                   /\ InAbsent(2) => watchers[n].done2 = NilChan)
    /\ (policy = "and" /\ OneAbsent /\ DoneCalled /\ PresentFired)
           ~> DerivedFired

\* An AndContext over context.Background() and a cancellable Ctx2 whose
\* derived signal has fired after Ctx2 ended.
C4_Witness ==
    /\ policy = "and"
    /\ InAbsent(1) /\ ~InAbsent(2)
    /\ InFired(2)
    /\ DerivedFired

\* Exactly input i of two inputs has fired.
OnlyFired(i) == InFired(i) /\ ~InFired(3 - i)

\* C5: AND policy, both inputs with a done-signal: while exactly one input has
\* fired the derived signal has not fired and the watcher is still in its
\* loop, holding the pending input's channel, with no step to take once it
\* has received from the fired one; and once Done() has been called and both
\* inputs have fired, in either order, the derived signal eventually fires.
C5_AndWaitsForBoth ==
    /\ [](policy = "and" /\ ~InAbsent(1) /\ ~InAbsent(2) =>
            \A i \in {1, 2} : OnlyFired(i) =>
                /\ ~DerivedFired
                /\ \A n \in DOMAIN watchers :
                       LET mine == IF i = 1 THEN watchers[n].done1
                                            ELSE watchers[n].done2
                           other == IF i = 1 THEN watchers[n].done2
                                             ELSE watchers[n].done1
                       IN /\ watchers[n].pc = "select"
                          /\ other = 3 - i
                          /\ mine = NilChan => ~ENABLED WatcherStep(n))
    /\ (policy = "and" /\ ~InAbsent(1) /\ ~InAbsent(2)
           /\ DoneCalled /\ InFired(1) /\ InFired(2)) ~> DerivedFired

\* An AndContext over a timed-out Ctx1 and a cancelled Ctx2 whose watcher
\* has closed the derived channel and exited.
C5_Witness ==
    /\ policy = "and"
    /\ inErr[1] = "DeadlineExceeded" /\ inErr[2] = "Canceled"
    /\ \E n \in DOMAIN watchers : watchers[n].pc = "exit"
    /\ DerivedFired

\* C6: both policies: if Ctx1.Done() and Ctx2.Done() are both nil, no channel
\* is ever allocated, no watcher is ever started, every Done() call returns
\* nil, and every Err() call returns nil, no error ever being computed.
C6_BothAbsent ==
    InAbsent(1) /\ InAbsent(2) =>
        /\ allocs = 0
        /\ watchers = <<>>
        /\ done = NilChan
        /\ doneReturned \subseteq {NilChan}
        /\ errReturned = {}
        /\ err = <<>> /\ onceErr = "fresh"
        /\ \A o \in Observers :
               /\ obs[o].ch = NilChan
               /\ obs[o].pc \notin {"errOnce", "errRead1", "errRead2", "errRet"}

\* Over two context.Background() inputs a Done() call has returned nil and
\* an Err() call is returning nil.
C6_Witness ==
    /\ InAbsent(1) /\ InAbsent(2)
    /\ doneReturned = {NilChan}
    /\ onceDone = "done"
    /\ \E o \in Observers : obs[o].pc = "errRetNil"

\* C7: for any interleaving of the observers' Done() and Err() calls, at most
\* one channel is allocated, at most one watcher is started, and every
\* Done() call, also the one inside Err(), returns the same channel, c.done.
C7_OnceOnlyFanIn ==
    /\ allocs <= 1
    /\ Len(watchers) <= 1
    /\ Cardinality(doneReturned) <= 1
    /\ doneReturned \subseteq {done}
    /\ \A o \in Observers : obs[o].pc = "errSelect" => obs[o].ch = done

\* One channel and one watcher exist, a Done() call has returned the channel,
\* and every observer is in Err() holding that same channel at the select.
C7_Witness ==
    /\ allocs = 1
    /\ Len(watchers) = 1
    /\ doneReturned = {done}
    /\ \A o \in Observers :
           obs[o].pc = "errSelect" /\ obs[o].ch = done /\ done # NilChan

\* Observer o is in the fired branch of Err()'s select.
InFiredBranch(o) == obs[o].pc \in {"errOnce", "errRead1", "errRead2", "errRet"}

BothPresent == ~InAbsent(1) /\ ~InAbsent(2)

\* C9: both policies: once c.onceErr has run, c.err is the join of the values
\* a and b that Ctx1.Err() and Ctx2.Err() had when they were read: <<a, b>>
\* if both are non-nil, the non-nil one alone if only one is, nil if neither
\* is; the call returns c.err; and for an AndContext over two inputs with a
\* done-signal c.err holds both inputs' causes, Ctx1's first.
C9_ErrIsJoinOfReads ==
    LET a == errArgs[1]
        b == errArgs[2]
    IN /\ onceErr = "done" =>
            /\ a # Nil /\ b # Nil => err = <<a, b>>
            /\ a # Nil /\ b = Nil => err = <<a>>
            /\ a = Nil /\ b # Nil => err = <<b>>
            /\ a = Nil /\ b = Nil => err = <<>>
            /\ policy = "and" /\ BothPresent => err = <<inErr[1], inErr[2]>>
            /\ policy = "and" /\ InAbsent(1) => err = <<inErr[2]>>
            /\ policy = "and" /\ InAbsent(2) => err = <<inErr[1]>>
       /\ \A o \in Observers : obs[o].pc = "errRet" =>
            onceErr = "done" /\ obs[o].ret = err

\* An AndContext over a cancelled Ctx1 and a timed-out Ctx2 whose Err() is
\* returning both causes.
C9_Witness ==
    /\ policy = "and"
    /\ errReads = 1
    /\ \E o \in Observers :
           obs[o].pc = "errRet" /\ obs[o].ret = <<"Canceled", "DeadlineExceeded">>

\* C10: Err() is stable once the derived signal has fired: from then on no
\* call takes "default: return nil" at its select, and all Err() calls
\* that take the fired branch of the select, one after another or together,
\* return one and the same non-nil value, c.err, also when an input ends
\* after c.err was computed; the inputs' Err() are read for it only once.
C10_ErrStable ==
    /\ [](/\ Cardinality(errReturned) <= 1
          /\ errReads <= 1
          /\ errReturned # {} =>
                errReturned = {err} /\ err # <<>> /\ errReads = 1 /\ DerivedFired
          /\ \A o \in Observers : obs[o].pc = "errRet" =>
                /\ obs[o].ret = err
                /\ errReturned \subseteq {obs[o].ret})
    /\ [][onceErr = "done" => err' = err /\ onceErr' = "done"]_vars
    /\ [][\A o \in Observers :
            obs[o].pc # "errRetNil" /\ obs'[o].pc = "errRetNil" => ~DerivedFired]_vars

\* An OrContext whose Err() has returned Ctx1's cause alone and is returning
\* it again to two callers together after Ctx2 has ended as well.
C10_Witness ==
    /\ policy = "or"
    /\ inErr[1] = "Canceled" /\ inErr[2] = "DeadlineExceeded"
    /\ errReturned = {<<"Canceled">>}
    /\ \A o \in Observers : obs[o].pc = "errRet" /\ obs[o].ret = <<"Canceled">>

\* The error that wraps the non-nil ones of e1 and e2, e1's first.
Wraps(e1, e2) ==
    (IF e1 # Nil THEN <<e1>> ELSE <<>>) \o (IF e2 # Nil THEN <<e2>> ELSE <<>>)

\* C11 as stated: OR policy: the memoized error is the join of Ctx1.Err() and
\* Ctx2.Err() as they stood at the moment the derived done-signal fired (the
\* watcher's close), so that an input still pending at that moment never
\* contributes, whenever Err() is first read after the firing.
C11_OrErrJoinsAtFiring ==
    policy = "or" /\ onceErr = "done" => err = Wraps(errAtFire[1], errAtFire[2])

\* C11 as amended: OR policy: the memoized error is the join of Ctx1.Err() and
\* Ctx2.Err() as they stand when Err() is first read after the firing: it
\* holds the cause of every input that had ended when the derived signal
\* fired, it may hold the cause of an input that ended between the firing
\* and that first read, and it holds no cause of an input that is still
\* pending; so it is the first input's cause alone when the other input has
\* not ended by the first read.
C11_OrErrJoinsAtFirstRead ==
    policy = "or" /\ onceErr = "done" =>
        /\ errAtFire # <<Nil, Nil>>
        /\ \E x1 \in {Nil, inErr[1]}, x2 \in {Nil, inErr[2]} :
               /\ errArgs = <<x1, x2>>
               /\ err = Wraps(x1, x2)
               /\ errAtFire[1] # Nil => x1 = errAtFire[1]
               /\ errAtFire[2] # Nil => x2 = errAtFire[2]

\* An OrContext that fired on Ctx1's cancellation while Ctx2 was pending and
\* whose Err(), first read while Ctx2 was still pending, is returning
\* Ctx1's cause alone.
C11_Witness ==
    /\ policy = "or"
    /\ errAtFire = <<"Canceled", Nil>>
    /\ ~InAbsent(2) /\ inErr[2] = Nil
    /\ errReads = 1
    /\ \E o \in Observers : obs[o].pc = "errRet" /\ obs[o].ret = <<"Canceled">>

\* The error the inputs' kinds make TestOrContext_Err expect of Ctx_i.
ExpectedCause(i) ==
    CASE kind[i] = "cancel" -> "Canceled"
      [] kind[i] = "timeout" -> "DeadlineExceeded"
      [] OTHER -> Nil

\* C12: OR policy, as TestOrContext_Err asserts: over one input that is
\* cancelled and one that times out later, in either position, every
\* Err() that returns from the fired branch once the cancellation has
\* fired the derived signal, the first and any later one, returns the join
\* of both inputs' causes, Ctx1's first.
C12_OrErrHoldsBothCauses ==
    (/\ policy = "or"
     /\ \E i \in {1, 2} :
            /\ kind[i] = "cancel" /\ kind[3 - i] = "timeout"
            /\ inErr[i] = "Canceled" /\ inErr[3 - i] # "Canceled")
        => \A o \in Observers : obs[o].pc = "errRet" =>
               obs[o].ret = <<ExpectedCause(1), ExpectedCause(2)>>

\* C13: OrContext.Deadline(): with both inputs' deadlines d1 and d2 present the
\* result is the earlier of the two (either when d1 = d2), present; with
\* exactly one present it is that one; with none the result has no
\* deadline; and every call, the first and the later ones, returns the
\* pair the first call computed.
C13_OrDeadlineIsEarliest ==
    policy = "or" =>
        /\ onceDeadline = "fresh" => dlReturned = {}
        /\ onceDeadline = "done" =>
              /\ dlReturned = {<<deadline, okDeadline>>}
              /\ inOk[1] /\ inOk[2] =>
                    /\ okDeadline
                    /\ deadline \in {inDl[1], inDl[2]}
                    /\ deadline <= inDl[1] /\ deadline <= inDl[2]
              /\ inOk[1] /\ ~inOk[2] => okDeadline /\ deadline = inDl[1]
              /\ ~inOk[1] /\ inOk[2] => okDeadline /\ deadline = inDl[2]
              /\ ~inOk[1] /\ ~inOk[2] => ~okDeadline

\* An OrContext over a Ctx1 with a later deadline than Ctx2's whose
\* Deadline() has returned Ctx2's.
C13_Witness ==
    /\ policy = "or"
    /\ inOk[1] /\ inOk[2]
    /\ inDl[1] > inDl[2]
    /\ dlReturned = {<<inDl[2], TRUE>>}

\* C14: AndContext.Deadline(): with both inputs' deadlines present the result
\* is the later of the two, present; with exactly one present it is that
\* one; with none the result has no deadline; and every call returns the
\* pair the first call computed.
C14_AndDeadlineIsLatest ==
    policy = "and" =>
        /\ onceDeadline = "fresh" => dlReturned = {}
        /\ onceDeadline = "done" =>
              /\ dlReturned = {<<deadline, okDeadline>>}
              /\ inOk[1] /\ inOk[2] =>
                    /\ okDeadline
                    /\ deadline \in {inDl[1], inDl[2]}
                    /\ deadline >= inDl[1] /\ deadline >= inDl[2]
              /\ inOk[1] /\ ~inOk[2] => okDeadline /\ deadline = inDl[1]
              /\ ~inOk[1] /\ inOk[2] => okDeadline /\ deadline = inDl[2]
              /\ ~inOk[1] /\ ~inOk[2] => ~okDeadline

\* An AndContext over a Ctx1 with an earlier deadline than Ctx2's whose
\* Deadline() has returned Ctx2's.
C14_Witness ==
    /\ policy = "and"
    /\ inOk[1] /\ inOk[2]
    /\ inDl[1] < inDl[2]
    /\ dlReturned = {<<inDl[2], TRUE>>}

\* A Value() call has returned.
ValueCalled == valueRet.key \in Keys

\* C15: OrContext.Value(key): the result is nil if and only if Ctx1.Value(key)
\* and Ctx2.Value(key) are both nil; otherwise it is the pair (v1, v2) of
\* the two sides' values, the component of a side without the key nil.
C15_OrValuePairsSides ==
    policy = "or" /\ ValueCalled =>
        LET v1 == store[1][valueRet.key]
            v2 == store[2][valueRet.key]
        IN /\ ~valueRet.ok <=> (v1 = Nil /\ v2 = Nil)
           /\ valueRet.ok => valueRet.v1 = v1 /\ valueRet.v2 = v2

AllExited == \A n \in DOMAIN watchers : watchers[n].pc = "exit"

\* The policy's firing condition holds over the inputs: one input has fired
\* (OrContext), every input that has a done-signal has fired (AndContext).
FiringCondition ==
    IF policy = "or" THEN InFired(1) \/ InFired(2) ELSE PresentFired

\* What C17 says besides termination: a watcher exists only over an input
\* with a done-signal, and a watcher that has closed the derived channel
\* has returned and takes no further step.
WatcherSafety ==
    /\ [](\A n \in DOMAIN watchers :
            /\ ~(InAbsent(1) /\ InAbsent(2))
            /\ watchers[n].out \in closed =>
                   watchers[n].pc = "exit" /\ ~ENABLED WatcherStep(n))
    /\ [][\A n \in DOMAIN watchers :
            watchers[n].pc = "exit" => watchers'[n] = watchers[n]]_vars

\* C17 as stated: every watcher that is started eventually returns, whatever
\* the inputs do; a watcher exists only if an input has a done-signal; and
\* after closing the derived channel it takes no further step.
C17_EveryWatcherTerminates ==
    /\ WatcherSafety
    /\ (watchers # <<>>) ~> AllExited

\* C17 as amended: a watcher that is started eventually returns once its
\* policy's firing condition holds over the inputs (until then it has not
\* returned, and never does if the inputs never end); a watcher
\* exists only if an input has a done-signal; and after closing the derived
\* channel it takes no further step.
C17_WatcherTerminatesOnceFired ==
    /\ WatcherSafety
    /\ (watchers # <<>> /\ FiringCondition) ~> (watchers # <<>> /\ AllExited)
    /\ [](watchers # <<>> /\ ~FiringCondition => ~AllExited)

\* An AndContext over context.Background() and a cancelled Ctx2 whose
\* watcher has closed the derived channel and returned.
C17_Witness ==
    /\ policy = "and"
    /\ InAbsent(1) /\ inErr[2] = "Canceled"
    /\ watchers # <<>> /\ AllExited
    /\ DerivedFired

\* C18: the derived done-signal is single-fire: only c.done is ever closed,
\* once; no close of a closed channel is attempted, the watcher having
\* returned once the signal has fired; and once fired the signal stays
\* fired, c.done staying the same closed channel, whatever calls and input
\* events follow.
C18_SingleFire ==
    /\ [](/\ ~closePanic
          /\ Cardinality(closed) <= 1
          /\ closed \subseteq {done}
          /\ NilChan \notin closed
          /\ DerivedFired => AllExited)
    /\ [][DerivedFired =>
            DerivedFired' /\ done' = done /\ closed' = closed]_vars

\* An OrContext that fired on Ctx1's cancellation and is still fired after
\* Ctx2 has ended too, a Done() call has returned and an Err() call is
\* returning.
C18_Witness ==
    /\ policy = "or"
    /\ errAtFire = <<"Canceled", Nil>>
    /\ inErr[2] # Nil
    /\ DerivedFired
    /\ doneReturned = {done}
    /\ \E o \in Observers : obs[o].pc = "errRet"

\* The fields behind Done() and Err().
doneErrFields == <<onceDone, done, allocs, watchers, closed, onceErr, err>>

\* C20: Deadline() and Value() leave the done and error fields as they are,
\* allocating no channel and starting no watcher; before c.onceDone.Do has
\* run there is no channel and no watcher; the channel is made and the
\* watcher started in one step only, the body of c.onceDone.Do run by the
\* first Done() call or by the Done() call inside the first Err() call;
\* and an Err() call that has got to its select has run or waited for
\* that body, so that the watcher exists although Done() was never called
\* by an observer.
C20_LazyFanIn ==
    /\ [][DeadlineCall \/ (\E key \in Keys : ValueCall(key))
            => UNCHANGED doneErrFields]_vars
    /\ [][done' # done \/ allocs' # allocs \/ watchers' # watchers =>
            \/ \E n \in DOMAIN watchers : WatcherStep(n)
            \/ /\ allocs = 0 /\ watchers = <<>> /\ done = NilChan
               /\ onceDone = "running" /\ onceDone' = "done"
               /\ allocs' = 1 /\ Len(watchers') = 1 /\ done' # NilChan
               /\ \E o \in Observers :
                      /\ obs[o].pc = "doneBody" /\ obs'[o].pc # "doneBody"
                      /\ obs[o].op \in {"Done", "Err"}]_vars
    /\ [](/\ onceDone # "done" => done = NilChan /\ allocs = 0 /\ watchers = <<>>
          /\ \A o \in Observers :
                 obs[o].op = "Err" /\ obs[o].pc \notin {"doneOnce", "doneBody"} =>
                     /\ onceDone = "done"
                     /\ ~BothDoneNil => done # NilChan /\ Len(watchers) = 1)

\* No Done() call has been made by an observer, Deadline() and Value() have
\* been called, and an Err() call is returning nil with the channel made
\* and the watcher started by it.
C20_Witness ==
    /\ doneReturned = {}
    /\ \A o \in Observers : obs[o].op # "Done"
    /\ onceDeadline = "done" /\ ValueCalled
    /\ done # NilChan /\ Len(watchers) = 1
    /\ \E o \in Observers : obs[o].pc = "errRetNil"

\* What Err() of the nested context returns to a call made in this state:
\* nil from "default:" while c.done is not closed, c.err once c.onceErr has
\* run, the join of the inputs' errors from the call that runs it.
ErrNow ==
    IF ~ChanClosed(done) THEN <<>>
    ELSE IF onceErr = "done" THEN err
    ELSE Join(inErr[1], inErr[2])

\* Done() of the nested context is nil: both its inputs' Done() are.
InnerAbsent == InAbsent(1) /\ InAbsent(2)

\* The outer context's derived done-signal has fired.
OuterFired == ChanClosed(oDone)

\* The outer policy's firing condition over its two inputs, the nested
\* context and Ctx3: one of them has fired (OrContext); one of them at
\* least has a done-signal and each that has one has fired (AndContext).
OuterCondition ==
    IF oPolicy = "or"
    THEN DerivedFired \/ ChanClosed(Done3)
    ELSE /\ ~(InnerAbsent /\ Done3 = NilChan)
         /\ ~InnerAbsent => DerivedFired
         /\ Done3 # NilChan => ChanClosed(Done3)

\* C19: nesting: the combined context keeps the contract of an input (its
\* Err() is nil while its done-signal has not fired and non-nil once it
\* has, and the signal stays fired); with it as Ctx1 or Ctx2 of an outer
\* combined context, once the outer Done() has run its once-body the
\* nested context's own once-body has run, its channel made and its
\* watcher started (unless both its inputs have no done-signal); the outer
\* derived signal fires only when the outer policy's condition holds over
\* the nested context's derived signal and Ctx3; and once the outer Done()
\* has been called and that condition holds the outer signal eventually
\* fires, the goroutines being scheduled fairly.
C19_Nesting ==
    /\ [](/\ ~DerivedFired => ErrNow = <<>>
          /\ DerivedFired => ErrNow # <<>>)
    /\ [][DerivedFired => DerivedFired']_vars
    /\ [](oOnceDone = "done" =>
            /\ onceDone = "done"
            /\ ~InnerAbsent =>
                  /\ done # NilChan
                  /\ \E n \in DOMAIN watchers : watchers[n].out = done)
    /\ [](OuterFired => OuterCondition)
    /\ (oOnceDone # "fresh" /\ OuterCondition) ~> OuterFired

\* An outer AndContext over a cancelled Ctx3 and, as its Ctx2, an OrContext
\* over two cancellable inputs of which only the second was cancelled: the
\* outer signal has fired, no observer having called Done() of the nested
\* context itself.
C19_Witness ==
    /\ oPolicy = "and" /\ oPos = 2 /\ policy = "or"
    /\ ~InAbsent(1) /\ inErr[1] = Nil /\ inErr[2] = "Canceled"
    /\ err3 = "Canceled"
    /\ doneReturned = {}
    /\ \A o \in Observers : obs[o].op # "Done"
    /\ DerivedFired
    /\ OuterFired

\* C21: AND policy: the error Err() returns after the derived done-signal has
\* fired is a function of the inputs' termination causes alone, whenever
\* Err() is first read and however observers and watcher interleave: when
\* the signal fires every input with a done-signal has its cause, a cause
\* never changes once set, and the memoized error and every value returned
\* are the join of the causes of the inputs with a done-signal, Ctx1's
\* first, an input without one contributing nothing.
C21_AndErrDeterministic ==
    /\ [](policy = "and" =>
            /\ DerivedFired =>
                  /\ PresentFired
                  /\ errAtFire = <<inErr[1], inErr[2]>>
            /\ \A i \in {1, 2} : InAbsent(i) => inErr[i] = Nil
            /\ onceErr = "done" =>
                  /\ DerivedFired
                  /\ err = Wraps(inErr[1], inErr[2])
                  /\ errArgs = errAtFire
            /\ errReturned \subseteq {Wraps(inErr[1], inErr[2])}
            /\ \A o \in Observers : obs[o].pc = "errRet" =>
                   obs[o].ret = Wraps(inErr[1], inErr[2]))
    /\ [][\A i \in {1, 2} : inErr[i] # Nil => inErr'[i] = inErr[i]]_vars

\* An AndContext over context.Background() and a timed-out Ctx2 whose Err()
\* has returned Ctx2's cause and is returning it again.
C21_Witness ==
    /\ policy = "and"
    /\ InAbsent(1) /\ inErr[2] = "DeadlineExceeded"
    /\ errReturned = {<<"DeadlineExceeded">>}
    /\ \E o \in Observers : obs[o].pc = "errRet"

\* Deadline() has reported (deadline, true), a Done() call has returned, and
\* the time has reached the reported deadline.
DeadlineReached ==
    /\ dlReturned = {<<deadline, TRUE>>}
    /\ doneReturned # {}
    /\ now >= deadline

====
